---------------------------- MODULE Spec2Model ----------------------------
(***************************************************************************)
(* A model of the dataretriever clients of sunpy: the capability checks    *)
(* (_can_handle_query) of EVEClient, GBMClient, XRSClient and SUVIClient,  *)
(* the daily time-range enumeration and URL templates of the scraper, and  *)
(* SUVIClient._get_url_for_timerange.                                      *)
(*                                                                         *)
(* Python strings are sequences of one-character strings, so that lower()  *)
(* and int() are computed character by character.                          *)
(***************************************************************************)
EXTENDS Integers, Sequences, FiniteSets, TLC

(***************************************************************************)
(* Bounds of the model.                                                    *)
(***************************************************************************)
MaxQueryLen == 3

MaxLevelLen == 3

MaxSpanDays == 7

\* the most days after its first that a time range given to SUVIClient covers
MaxSuviSpan == 1

(***************************************************************************)
(* Python string primitives.                                               *)
(***************************************************************************)
UpperChars == <<"A","B","C","D","E","F","G","H","I","J","K","L","M",
                "N","O","P","Q","R","S","T","U","V","W","X","Y","Z">>

LowerChars == <<"a","b","c","d","e","f","g","h","i","j","k","l","m",
                "n","o","p","q","r","s","t","u","v","w","x","y","z">>

Digits == <<"0","1","2","3","4","5","6","7","8","9">>

\* the lower-case letter of each upper-case letter
LowerMap ==
  [c \in { UpperChars[i] : i \in 1..Len(UpperChars) } |->
     LowerChars[CHOOSE i \in 1..Len(UpperChars) : UpperChars[i] = c]]

LowerChar(c) == IF c \in DOMAIN LowerMap THEN LowerMap[c] ELSE c

\* str.lower()
str_lower(s) == [i \in 1..Len(s) |-> LowerChar(s[i])]

DigitSet == { Digits[i] : i \in 1..Len(Digits) }

IsDigit(c) == c \in DigitSet

DigitVal(c) == (CHOOSE i \in 1..Len(Digits) : Digits[i] = c) - 1

IsSpace(c) == c = " "

RECURSIVE str_lstrip(_)
str_lstrip(s) ==
  IF s # <<>> /\ IsSpace(s[1]) THEN str_lstrip(Tail(s)) ELSE s

RECURSIVE str_rstrip(_)
str_rstrip(s) ==
  IF s # <<>> /\ IsSpace(s[Len(s)]) THEN str_rstrip(SubSeq(s, 1, Len(s) - 1)) ELSE s

str_strip(s) == str_rstrip(str_lstrip(s))

RECURSIVE DecimalValue(_)
DecimalValue(s) ==
  IF s = <<>> THEN 0
  ELSE IF s[Len(s)] = "_" THEN DecimalValue(SubSeq(s, 1, Len(s) - 1))
  ELSE 10 * DecimalValue(SubSeq(s, 1, Len(s) - 1)) + DigitVal(s[Len(s)])

\* int(s) for a str s: surrounding blanks are stripped, one sign is allowed,
\* then decimal digits, with single underscores between digits.  The result
\* is [ok |-> FALSE] where Python raises ValueError.
py_int(s) ==
  LET t    == str_strip(s)
      sign == t # <<>> /\ t[1] \in {"+", "-"}
      body == IF sign THEN Tail(t) ELSE t
      wellFormed ==
        /\ body # <<>>
        /\ \A i \in 1..Len(body) :
             \/ IsDigit(body[i])
             \/ /\ body[i] = "_"
                /\ 1 < i /\ i < Len(body)
                /\ IsDigit(body[i - 1]) /\ IsDigit(body[i + 1])
  IN IF wellFormed
       THEN [ok |-> TRUE,
             val |-> IF sign /\ t[1] = "-" THEN 0 - DecimalValue(body)
                                           ELSE DecimalValue(body)]
       ELSE [ok |-> FALSE, val |-> 0]

RECURSIVE NatDigits(_)
NatDigits(n) ==
  IF n < 10 THEN <<Digits[n + 1]>>
  ELSE Append(NatDigits(n \div 10), Digits[(n % 10) + 1])

\* str(n) for an int n
py_str_int(n) == IF n < 0 THEN <<"-">> \o NatDigits(0 - n) ELSE NatDigits(n)

\* bool -> the Python result of a call that returned
Py(b) == IF b THEN "True" ELSE "False"

(***************************************************************************)
(* Query attributes.  An attribute is a record                             *)
(*   kind : the attribute class name                                       *)
(*   t    : the Python type of the payload ("str", "int", "float",         *)
(*          "range", "time")                                               *)
(*   s    : the payload of a str                                           *)
(*   n, d : the payload of an int (n), of a float (n / d), or the          *)
(*          wavemin (n) and wavemax (d) of a Wavelength, in angstrom       *)
(***************************************************************************)
StrAttr(k, s)      == [kind |-> k, t |-> "str",   s |-> s,    n |-> 0, d |-> 1]
IntAttr(k, n)      == [kind |-> k, t |-> "int",   s |-> <<>>, n |-> n, d |-> 1]
FloatAttr(k, n, d) == [kind |-> k, t |-> "float", s |-> <<>>, n |-> n, d |-> d]
RangeAttr(k, a, b) == [kind |-> k, t |-> "range", s |-> <<>>, n |-> a, d |-> b]
TimeAttr           == [kind |-> "Time", t |-> "time", s |-> <<>>, n |-> 0, d |-> 1]

\* Instrument names as callers write them.
InstrumentNames ==
  { <<"e","v","e">>, <<"G","B","M">>, <<"x","r","s">>, <<"G","o","e","s">>,
    <<"S","u","v","i">>, <<"s","w","a","p">> }

\* The attributes a routed query is put together from.
QueryAttrs ==
  {TimeAttr}
    \cup { StrAttr("Instrument", s) : s \in InstrumentNames }
    \cup { StrAttr("Level", <<"0","c","s">>), StrAttr("Level", <<"1","b">>) }
    \cup { StrAttr("Detector", <<"n","5">>), StrAttr("Detector", <<"n","1","2">>) }
    \cup { StrAttr("Resolution", <<"h","i","r","e","s">>) }
    \cup { RangeAttr("Wavelength", 171, 171), RangeAttr("Wavelength", 100, 120) }
    \cup { IntAttr("SatelliteNumber", 15), IntAttr("SatelliteNumber", 16) }
    \cup { StrAttr("Source", <<"s","d","o">>) }

\* The Level payloads EVEClient is tried on: every string of at most
\* MaxLevelLen characters of LevelAlphabet, some longer ones, and numbers.
LevelAlphabet == {"0", "1", "c", "C", "s", "S", " ", "-", "+", "_", "."}

RECURSIVE StringsUpTo(_)
StringsUpTo(k) ==
  IF k = 0 THEN { <<>> }
  ELSE StringsUpTo(k - 1)
         \cup { Append(s, c) : s \in StringsUpTo(k - 1), c \in LevelAlphabet }

LevelAttrs ==
  { StrAttr("Level", s) : s \in StringsUpTo(MaxLevelLen) }
    \cup { StrAttr("Level", <<"w","i","b","b","l","e">>),
           StrAttr("Level", <<" ","0","_","0"," ">>),
           StrAttr("Level", <<"1","b">>) }
    \cup { IntAttr("Level", n) : n \in {-1, 0, 1} }
    \cup { FloatAttr("Level", 1, 2), FloatAttr("Level", 0, 1),
           FloatAttr("Level", -1, 2) }

QueryKinds(query) == { query[i].kind : i \in 1..Len(query) }

(***************************************************************************)
(* GenericClient.check_attr_types_in_query: every required class is in the *)
(* query and every class of the query is required or optional.             *)
(***************************************************************************)
check_attr_types_in_query(query, required, optional) ==
  /\ required \subseteq QueryKinds(query)
  /\ QueryKinds(query) \subseteq (required \cup optional)

(***************************************************************************)
(* EVEClient._can_handle_query                                             *)
(***************************************************************************)
EVE_required == {"Time", "Instrument", "Level"}

EVE_optional == {}

\* The body of "if isinstance(x, a.Level)": "keep" leaves matches as it is,
\* "unset" sets matches = False, "ValueError" is int(value) raising out of
\* the call.  First, the body without its try ... except ValueError.
EVE_level_step_uncaught(x) ==
  IF x.t = "str"
    THEN IF str_lower(x.s) = <<"0","c","s">> THEN "keep"
         ELSE IF py_int(x.s).ok
                THEN (IF py_int(x.s).val # 0 THEN "unset" ELSE "keep")
                ELSE "ValueError"
    ELSE IF x.n # 0 THEN "unset" ELSE "keep"

\* the alias compared as written, without lower()
EVE_level_step_cased(x) ==
  IF x.t = "str"
    THEN IF x.s = <<"0","c","s">> THEN "keep"
         ELSE IF py_int(x.s).ok
                THEN (IF py_int(x.s).val # 0 THEN "unset" ELSE "keep")
                ELSE "unset"
    ELSE IF x.n # 0 THEN "unset" ELSE "keep"

EVE_level_step(x) ==
  IF x.t = "str"
    THEN IF str_lower(x.s) = <<"0","c","s">> THEN "keep"
         ELSE IF py_int(x.s).ok
                THEN (IF py_int(x.s).val # 0 THEN "unset" ELSE "keep")
                \* except ValueError: matches = False; value is still the
                \* str, which differs from 0
                ELSE "unset"
    ELSE IF x.n # 0 THEN "unset" ELSE "keep"

EVE_instrument_step(x) ==
  IF str_lower(x.s) # <<"e","v","e">> THEN "unset" ELSE "keep"

\* The for loop over the query, from element i on, with the current matches.
RECURSIVE EVE_loop(_, _, _)
EVE_loop(query, i, matches) ==
  IF i > Len(query) THEN Py(matches)
  ELSE LET x  == query[i]
           m1 == IF x.kind = "Instrument" /\ EVE_instrument_step(x) = "unset"
                   THEN FALSE ELSE matches
           lv == IF x.kind = "Level" THEN EVE_level_step(x) ELSE "keep"
       IN IF lv = "ValueError" THEN "ValueError"
          ELSE EVE_loop(query, i + 1, IF lv = "unset" THEN FALSE ELSE m1)

EVE_can_handle_query(query) ==
  IF ~ check_attr_types_in_query(query, EVE_required, EVE_optional)
    THEN "False"
    ELSE EVE_loop(query, 1, TRUE)

(***************************************************************************)
(* GBMClient._can_handle_query and XRSClient._can_handle_query             *)
(***************************************************************************)
GBM_chkattr == {"Time", "Instrument", "Detector", "Resolution"}

GBM_names == { <<"g","b","m">> }

XRS_chkattr == {"Time", "Instrument", "SatelliteNumber"}

\* the names of XRSClient with that of SUVIClient among them
XRS_names_shared == { <<"x","r","s">>, <<"g","o","e","s">>, <<"s","u","v","i">> }

XRS_names == { <<"x","r","s">>, <<"g","o","e","s">> }

\* chklist and all(chklist)
all_chklist(query, chkattr) ==
  \A i \in 1..Len(query) : query[i].kind \in chkattr

\* the name compared as written, without lower()
GBM_can_handle_query_cased(query) ==
  IF \E i \in 1..Len(query) :
       query[i].kind = "Instrument" /\ query[i].s \in GBM_names
    THEN Py(all_chklist(query, GBM_chkattr))
    ELSE "False"

GBM_can_handle_query(query) ==
  IF \E i \in 1..Len(query) :
       query[i].kind = "Instrument" /\ str_lower(query[i].s) \in GBM_names
    THEN Py(all_chklist(query, GBM_chkattr))
    ELSE "False"

XRS_can_handle_query(query) ==
  IF \E i \in 1..Len(query) :
       query[i].kind = "Instrument" /\ str_lower(query[i].s) \in XRS_names
    THEN Py(all_chklist(query, XRS_chkattr))
    ELSE "False"

(***************************************************************************)
(* SUVIClient._can_handle_query                                            *)
(***************************************************************************)
SUVI_required == {"Time", "Instrument"}

SUVI_optional == {"Wavelength", "Level", "SatelliteNumber"}

SUVI_check_var_count(query) ==
  Cardinality({ i \in 1..Len(query) :
                  query[i].kind = "Instrument"
                    /\ str_lower(query[i].s) = <<"s","u","v","i">> })

\* without the test of the classes outside required
SUVI_can_handle_query_no_ops_check(query) ==
  Py(SUVI_check_var_count(query) = 1)

SUVI_can_handle_query(query) ==
  LET all_attrs == QueryKinds(query)
      ops       == all_attrs \ SUVI_required
  IN IF ops # {} /\ ~ (\A elem \in ops : elem \in SUVI_optional)
       THEN "False"
       ELSE Py(SUVI_check_var_count(query) = 1)

(***************************************************************************)
(* The four clients.                                                       *)
(***************************************************************************)
Clients == {"EVE", "GBM", "XRS", "SUVI"}

can_handle_query(c, query) ==
  CASE c = "EVE"  -> EVE_can_handle_query(query)
    [] c = "GBM"  -> GBM_can_handle_query(query)
    [] c = "XRS"  -> XRS_can_handle_query(query)
    [] c = "SUVI" -> SUVI_can_handle_query(query)

(***************************************************************************)
(* Calendar dates <<year, month, day>> and time ranges.                    *)
(***************************************************************************)
IsLeap(y) == (y % 4 = 0 /\ y % 100 # 0) \/ y % 400 = 0

DaysInMonth(y, m) ==
  IF m = 2 THEN (IF IsLeap(y) THEN 29 ELSE 28)
  ELSE IF m \in {4, 6, 9, 11} THEN 30 ELSE 31

DateLE(a, b) ==
  \/ a[1] < b[1]
  \/ a[1] = b[1] /\ a[2] < b[2]
  \/ a[1] = b[1] /\ a[2] = b[2] /\ a[3] <= b[3]

NextDay(dt) ==
  IF dt[3] < DaysInMonth(dt[1], dt[2]) THEN <<dt[1], dt[2], dt[3] + 1>>
  ELSE IF dt[2] < 12 THEN <<dt[1], dt[2] + 1, 1>>
  ELSE <<dt[1] + 1, 1, 1>>

RECURSIVE AddDays(_, _)
AddDays(dt, n) == IF n = 0 THEN dt ELSE AddDays(NextDay(dt), n - 1)

\* TimeRange(start, end): two instants, a date and an hour of that day
TimeRange(d1, h1, d2, h2) ==
  [start |-> [date |-> d1, hour |-> h1], end |-> [date |-> d2, hour |-> h2]]

(***************************************************************************)
(* URL templates.  A baseurl is a sequence of literal text, date           *)
(* directives and parenthesised regex fragments; an extractor is a         *)
(* sequence of literal text and fields.                                    *)
(***************************************************************************)
Lit(v)         == [k |-> "lit", v |-> v,    ty |-> "",  lo |-> 0,  hi |-> 0]
Dir(v)         == [k |-> "dir", v |-> v,    ty |-> "d", lo |-> 0,  hi |-> 0]
Re(ty, lo, hi) == [k |-> "re",  v |-> "",   ty |-> ty,  lo |-> lo, hi |-> hi]
Fld(name, ty, w) == [k |-> "fld", v |-> name, ty |-> ty, lo |-> w, hi |-> w]

\* a template that steps by month: EVEClient.baseurl without its %d
EVE_baseurl_monthly ==
  << Lit("http://lasp.colorado.edu/eve/data_access/evewebdata/quicklook/"),
     Lit("L0CS/SpWx/"), Dir("%Y"), Lit("/"), Dir("%Y"), Dir("%m"),
     Lit("_EVE_L"), Lit("0CS"), Lit("_DIODES_1m.txt") >>

EVE_baseurl ==
  << Lit("http://lasp.colorado.edu/eve/data_access/evewebdata/quicklook/"),
     Lit("L0CS/SpWx/"), Dir("%Y"), Lit("/"), Dir("%Y"), Dir("%m"), Dir("%d"),
     Lit("_EVE_L"), Lit("0CS"), Lit("_DIODES_1m.txt") >>

EVE_extractor ==
  << Lit("http://lasp.colorado.edu/eve/data_access/evewebdata/quicklook/L0CS/SpWx/"),
     Fld("", "", 0), Lit("/"), Fld("", "d", 8),
     Lit("_EVE_L"), Fld("Level", "w", 0), Lit("_DIODES_1m.txt") >>

GBM_baseurl ==
  << Lit("https://heasarc.gsfc.nasa.gov/FTP/fermi/data/gbm/daily/"),
     Dir("%Y"), Lit("/"), Dir("%m"), Lit("/"), Dir("%d"), Lit("/current/glg_"),
     Re("w", 5, 5), Lit("_"), Re("w", 2, 3), Lit("_"),
     Dir("%y"), Dir("%m"), Dir("%d"), Lit("_v00.pha") >>

\* the extractor with its Resolution and Detector fields exchanged
GBM_extractor_swapped ==
  << Lit("https://heasarc.gsfc.nasa.gov/FTP/fermi/data/gbm/daily/"),
     Fld("", "d", 4), Lit("/"), Fld("", "d", 2), Lit("/"), Fld("", "d", 2),
     Lit("/current/glg_"), Fld("Detector", "w", 2), Lit("_"),
     Fld("Resolution", "w", 5), Lit("_"), Fld("", "", 0), Lit("_v00.pha") >>

GBM_extractor ==
  << Lit("https://heasarc.gsfc.nasa.gov/FTP/fermi/data/gbm/daily/"),
     Fld("", "d", 4), Lit("/"), Fld("", "d", 2), Lit("/"), Fld("", "d", 2),
     Lit("/current/glg_"), Fld("Resolution", "w", 5), Lit("_"),
     Fld("Detector", "w", 2), Lit("_"), Fld("", "", 0), Lit("_v00.pha") >>

XRS_baseurl ==
  << Lit("https://umbra.nascom.nasa.gov/goes/fits/"), Dir("%Y"), Lit("/go"),
     Re("d", 2, 2), Re("d", 2, 4), Dir("%m"), Dir("%d"), Lit(".fits") >>

XRS_extractor ==
  << Lit("https://umbra.nascom.nasa.gov/goes/fits/"), Fld("year", "d", 4),
     Lit("/go"), Fld("SatelliteNumber", "d", 2), Fld("", "", 0),
     Fld("month", "d", 2), Fld("day", "d", 2), Lit(".fits") >>

ScraperClients == {"EVE", "GBM", "XRS"}

baseurl(c) ==
  CASE c = "EVE" -> EVE_baseurl
    [] c = "GBM" -> GBM_baseurl
    [] c = "XRS" -> XRS_baseurl

extractor(c) ==
  CASE c = "EVE" -> EVE_extractor
    [] c = "GBM" -> GBM_extractor
    [] c = "XRS" -> XRS_extractor

(***************************************************************************)
(* Pattern compiler: the resolution of a template is the finest date unit  *)
(* among its directives.                                                   *)
(***************************************************************************)
DirectiveRank(v) ==
  CASE v \in {"%Y", "%y"} -> 1
    [] v = "%m" -> 2
    [] v \in {"%d", "%j"} -> 3
    [] v = "%H" -> 4
    [] v = "%M" -> 5
    [] v = "%S" -> 6

RankUnit == <<"year", "month", "day", "hour", "minute", "second">>

compilePattern(template) ==
  LET ranks == { DirectiveRank(template[i].v) :
                   i \in { j \in 1..Len(template) : template[j].k = "dir" } }
  IN IF ranks = {} THEN "none"
     ELSE RankUnit[CHOOSE r \in ranks : \A q \in ranks : q <= r]

(***************************************************************************)
(* Time-range enumerator: the buckets of the resolution from the one that  *)
(* holds start to the one that holds end, both included.                   *)
(***************************************************************************)
BucketOf(dt, resolution) ==
  CASE resolution = "year"  -> <<dt[1], 1, 1>>
    [] resolution = "month" -> <<dt[1], dt[2], 1>>
    [] OTHER -> dt

NextBucket(b, resolution) ==
  CASE resolution = "year"  -> <<b[1] + 1, 1, 1>>
    [] resolution = "month" ->
         IF b[2] < 12 THEN <<b[1], b[2] + 1, 1>> ELSE <<b[1] + 1, 1, 1>>
    [] OTHER -> NextDay(b)

RECURSIVE EnumerateFrom(_, _, _)
EnumerateFrom(b, last, resolution) ==
  IF ~ DateLE(b, last) THEN <<>>
  ELSE <<b>> \o EnumerateFrom(NextBucket(b, resolution), last, resolution)

enumerate(timeRange, resolution) ==
  IF resolution = "none" THEN <<timeRange.start.date>>
  ELSE EnumerateFrom(BucketOf(timeRange.start.date, resolution),
                     BucketOf(timeRange.end.date, resolution), resolution)

(***************************************************************************)
(* Rendering a bucket with a template (strftime), and the texts an         *)
(* archive may hold where the template has a regex fragment.               *)
(***************************************************************************)
RECURSIVE ZeroPad(_, _)
ZeroPad(s, w) == IF Len(s) >= w THEN s ELSE ZeroPad(<<"0">> \o s, w)

strftime(v, dt) ==
  CASE v = "%Y" -> ZeroPad(NatDigits(dt[1]), 4)
    [] v = "%y" -> ZeroPad(NatDigits(dt[1] % 100), 2)
    [] v = "%m" -> ZeroPad(NatDigits(dt[2]), 2)
    [] v = "%d" -> ZeroPad(NatDigits(dt[3]), 2)

RegexTexts(tok) ==
  CASE tok.ty = "w" /\ tok.lo = 5 ->
         { <<"c","s","p","e","c">>, <<"c","t","i","m","e">> }
    [] tok.ty = "w" /\ tok.hi = 3 -> { <<"n","5">>, <<"n","1","1">> }
    [] tok.ty = "d" /\ tok.hi = 2 -> { <<"1","5">>, <<"0","8">> }
    [] tok.ty = "d" /\ tok.hi = 4 -> { <<"9","9">>, <<"2","0","1","6">> }

\* One piece of a URL for each token of the template: the literal text, the
\* rendered directive, or a text the regex fragment matches.
RECURSIVE Renderings(_, _)
Renderings(template, dt) ==
  IF template = <<>> THEN { <<>> }
  ELSE LET tok == Head(template)
           firsts ==
             CASE tok.k = "lit" -> { [lit |-> tok.v, txt |-> <<>>] }
               [] tok.k = "dir" -> { [lit |-> "", txt |-> strftime(tok.v, dt)] }
               [] tok.k = "re"  -> { [lit |-> "", txt |-> t] : t \in RegexTexts(tok) }
       IN { <<f>> \o r : f \in firsts, r \in Renderings(Tail(template), dt) }

(***************************************************************************)
(* Matching a URL of a baseurl against the extractor.  A literal of the    *)
(* extractor stands for the same literal text of the baseurl; a field      *)
(* stands for a run of adjacent groups (directives, regex fragments) of    *)
(* the baseurl, or for one piece of its literal text.                      *)
(***************************************************************************)
RECURSIVE ConcatLits(_)
ConcatLits(run) == IF run = <<>> THEN "" ELSE Head(run).v \o ConcatLits(Tail(run))

IsGroup(tok) == tok.k \in {"dir", "re"}

Covers(e, run) ==
  IF e.k = "lit"
    THEN /\ \A i \in 1..Len(run) : run[i].k = "lit"
         /\ ConcatLits(run) = e.v
    ELSE \/ \A i \in 1..Len(run) : IsGroup(run[i])
         \/ Len(run) = 1 /\ run[1].k = "lit"

\* The ways of laying the extractor E over the rest B of a baseurl, of
\* which ofs tokens are already covered: one span <<first, last>> of
\* baseurl tokens for each token of E.
RECURSIVE Alignments(_, _, _)
Alignments(E, B, ofs) ==
  IF E = <<>> THEN (IF B = <<>> THEN { <<>> } ELSE {})
  ELSE UNION { IF Covers(Head(E), SubSeq(B, 1, n))
                 THEN { << <<ofs + 1, ofs + n>> >> \o r :
                          r \in Alignments(Tail(E), SubSeq(B, n + 1, Len(B)), ofs + n) }
                 ELSE {} : n \in 1..Len(B) }

RECURSIVE ConcatTxt(_, _, _)
ConcatTxt(url, from, to) ==
  IF from > to THEN <<>> ELSE url[from].txt \o ConcatTxt(url, from + 1, to)

RECURSIVE ConcatLit(_, _, _)
ConcatLit(url, from, to) ==
  IF from > to THEN "" ELSE url[from].lit \o ConcatLit(url, from + 1, to)

\* The record of a URL: one entry for each field of the extractor, in
\* order, with the text it stands for; a digit field is read as an integer.
matchAndExtract(url, E, B) ==
  IF Alignments(E, B, 0) = {} THEN [ok |-> FALSE, fields |-> <<>>]
  ELSE LET al   == CHOOSE x \in Alignments(E, B, 0) : TRUE
           flds == SelectSeq([i \in 1..Len(E) |-> i], LAMBDA i : E[i].k = "fld")
       IN [ok |-> TRUE,
           fields |->
             [j \in 1..Len(flds) |->
                LET i   == flds[j]
                    txt == ConcatTxt(url, al[i][1], al[i][2])
                IN [name |-> E[i].v,
                    txt  |-> txt,
                    lit  |-> ConcatLit(url, al[i][1], al[i][2]),
                    val  |-> IF E[i].ty = "d" /\ py_int(txt).ok
                               THEN py_int(txt).val ELSE 0]]]

(***************************************************************************)
(* SUVIClient._get_goes_sat_num and SUVIClient._get_url_for_timerange.     *)
(* An instant is a date and an hour; a raised exception is a result with   *)
(* ok = FALSE.                                                             *)
(***************************************************************************)
Instant(dt, h) == [date |-> dt, hour |-> h]

InstantLE(a, b) ==
  \/ a.date # b.date /\ DateLE(a.date, b.date)
  \/ a.date = b.date /\ a.hour <= b.hour

\* suvi_operational: the satellites and the start of their time range,
\* which ends now
suvi_operational == { [sat_num |-> 16, start |-> Instant(<<2018, 6, 1>>, 0)] }

get_goes_sat_num(date, nowInstant) ==
  LET results == { e.sat_num : e \in { x \in suvi_operational :
                     InstantLE(x.start, date) /\ InstantLE(date, nowInstant) } }
  IN IF results # {}
       THEN [ok |-> TRUE, val |-> CHOOSE r \in results : \A q \in results : q <= r]
       ELSE [ok |-> FALSE, val |-> 0]

supported_waves == <<94, 131, 171, 195, 284, 304>>

\* the supported levels with '3' among them
supported_levels_with_3 == { <<"2">>, <<"1","b">>, <<"3">> }

supported_levels == { <<"2">>, <<"1","b">> }

\* The keyword arguments: each is absent or holds a value.
NoArg == [t |-> "absent", s |-> <<>>, n |-> 0, d |-> 1]

\* a Quantity of n / d angstrom
QuantityArg(n, d) == [t |-> "quantity", s |-> <<>>, n |-> n, d |-> d]

\* a Wavelength range from a to b angstrom
RangeArg(a, b) == [t |-> "range", s |-> <<>>, n |-> a, d |-> b]

IntArg(n) == [t |-> "int", s |-> <<>>, n |-> n, d |-> 1]

StrArg(s) == [t |-> "str", s |-> s, n |-> 0, d |-> 1]

InSeq(x, sq) == \E i \in 1..Len(sq) : sq[i] = x

\* lines 175-194: the bands to scrape, or ValueError
SUVI_waves(wavelength_input) ==
  IF wavelength_input.t # "absent"
    THEN IF wavelength_input.t = "quantity"
           THEN IF ~ InSeq(wavelength_input.n \div wavelength_input.d, supported_waves)
                  THEN [ok |-> FALSE, waves |-> <<>>]
                  ELSE [ok |-> TRUE,
                        waves |-> << wavelength_input.n \div wavelength_input.d >>]
           ELSE LET compress_index ==
                      [i \in 1..Len(supported_waves) |->
                         wavelength_input.n <= supported_waves[i]
                           /\ supported_waves[i] <= wavelength_input.d]
                IN IF ~ (\E i \in 1..Len(compress_index) : compress_index[i])
                     THEN [ok |-> FALSE, waves |-> <<>>]
                     ELSE [ok |-> TRUE,
                           waves |-> SelectSeq(supported_waves,
                                       LAMBDA w : wavelength_input.n <= w
                                                    /\ w <= wavelength_input.d)]
    ELSE [ok |-> TRUE, waves |-> supported_waves]

\* lines 196-197: int(kwargs.get("satellitenumber",
\* self._get_goes_sat_num(timerange.start))).  The default is an argument
\* of kwargs.get, so it is worked out before kwargs.get is called, whatever
\* kwargs holds.
SUVI_satellitenumber(arg, start, nowInstant) ==
  LET default == get_goes_sat_num(start, nowInstant)
  IN IF ~ default.ok THEN [ok |-> FALSE, val |-> 0]
     ELSE IF arg.t = "absent" THEN default
     ELSE [ok |-> TRUE, val |-> arg.n]

\* line 201: str(kwargs.get("level", "2"))
SUVI_level(arg) ==
  IF arg.t = "absent" THEN <<"2">>
  ELSE IF arg.t = "int" THEN py_str_int(arg.n)
  ELSE arg.s

\* lines 170-204: what the call has when it reaches the loop, or ValueError
SUVI_prepare(kwargs, tr, nowInstant) ==
  LET w   == SUVI_waves(kwargs.wavelength)
      sat == SUVI_satellitenumber(kwargs.satellitenumber, tr.start, nowInstant)
      lev == SUVI_level(kwargs.level)
      bad == [ok |-> FALSE, waves |-> <<>>, satellitenumber |-> 0, level |-> <<>>]
  IN IF ~ w.ok THEN bad
     ELSE IF ~ sat.ok THEN bad
     ELSE IF sat.val < 16 THEN bad
     ELSE IF lev \notin supported_levels THEN bad
     ELSE [ok |-> TRUE, waves |-> w.waves, satellitenumber |-> sat.val, level |-> lev]

\* search_pattern: the text of the directory and of the file name up to
\* their band number, and the keyword each takes that number from
Unbound ==
  [bound |-> FALSE, dir |-> "", dir_wave |-> "", file |-> "", file_wave |-> ""]

Pattern(dir, dir_wave, file, file_wave) ==
  [bound |-> TRUE, dir |-> dir, dir_wave |-> dir_wave,
   file |-> file, file_wave |-> file_wave]

\* the 94 branch with the file name taking its number from wave
SUVI_search_pattern_no_offset(level, this_wave, previous) ==
  IF level = <<"2">>
    THEN Pattern("l{level}/data/suvi-l{level}-ci", "wave",
                 "dr_suvi-l{level}-ci", "wave")
  ELSE IF level = <<"1","b">>
    THEN IF this_wave \in {131, 171, 195, 284}
           THEN Pattern("l{level}/suvi-l{level}-fe", "wave",
                        "OR_SUVI-L{level}-Fe", "wave")
         ELSE IF this_wave = 304
           THEN Pattern("l{level}/suvi-l{level}-he", "wave",
                        "OR_SUVI-L{level}-He", "wave_minus1")
         ELSE IF this_wave = 94
           THEN Pattern("l{level}/suvi-l{level}-fe", "wave",
                        "OR_SUVI-L{level}-Fe", "wave")
         ELSE previous
  ELSE previous

\* lines 210-222: search_pattern after the branches, from what it was
SUVI_search_pattern(level, this_wave, previous) ==
  IF level = <<"2">>
    THEN Pattern("l{level}/data/suvi-l{level}-ci", "wave",
                 "dr_suvi-l{level}-ci", "wave")
  ELSE IF level = <<"1","b">>
    THEN IF this_wave \in {131, 171, 195, 284}
           THEN Pattern("l{level}/suvi-l{level}-fe", "wave",
                        "OR_SUVI-L{level}-Fe", "wave")
         ELSE IF this_wave = 304
           THEN Pattern("l{level}/suvi-l{level}-he", "wave",
                        "OR_SUVI-L{level}-He", "wave_minus1")
         ELSE IF this_wave = 94
           THEN Pattern("l{level}/suvi-l{level}-fe", "wave",
                        "OR_SUVI-L{level}-Fe", "wave_minus1")
         ELSE previous
  ELSE previous

\* search_pattern.count('wave_minus1')
count_wave_minus1(search_pattern) ==
  (IF search_pattern.dir_wave = "wave_minus1" THEN 1 ELSE 0)
    + (IF search_pattern.file_wave = "wave_minus1" THEN 1 ELSE 0)

\* lines 224-229: the keywords the Scraper is built with
SUVI_scraper(search_pattern, level, this_wave, satellitenumber) ==
  IF count_wave_minus1(search_pattern) # 0
    THEN [level |-> level, wave |-> this_wave, goes_number |-> satellitenumber,
          has_wave_minus1 |-> TRUE, wave_minus1 |-> this_wave - 1]
    ELSE [level |-> level, wave |-> this_wave, goes_number |-> satellitenumber,
          has_wave_minus1 |-> FALSE, wave_minus1 |-> 0]

\* '{wave:03}' or '{wave_minus1:03}' formatted with the keywords of the
\* Scraper: the number, and its three digits
format_wave(keyword, scraperArgs) ==
  IF keyword = "wave_minus1" THEN scraperArgs.wave_minus1 ELSE scraperArgs.wave

format_03(n) == ZeroPad(NatDigits(n), 3)

\* Scraper.filelist(timerange): the files the archive holds for the
\* pattern at the given times, in ascending order of time
filelist(search_pattern, scraperArgs, times) ==
  [i \in 1..Len(times) |->
     [time      |-> times[i],
      level     |-> scraperArgs.level,
      goes      |-> scraperArgs.goes_number,
      dir       |-> search_pattern.dir,
      dir_wave  |-> format_wave(search_pattern.dir_wave, scraperArgs),
      file      |-> search_pattern.file,
      file_wave |-> format_wave(search_pattern.file_wave, scraperArgs)]]

(***************************************************************************)
(* State.                                                                  *)
(***************************************************************************)
VARIABLES
  query,      \* the attributes of the query being put together
  called,     \* the client whose _can_handle_query ran last, or "none"
  answer,     \* what that call returned or raised, or "none"
  spc,        \* where a listing of EVEClient, GBMClient or XRSClient stands
  sclient,    \* the client listing
  timerange,  \* the time range asked for
  candidates, \* the buckets enumerated for it
  ubucket,    \* the bucket of the URL found last
  url,        \* the URL found last, as the pieces of the baseurl
  rec,        \* the record extracted from it
  suvi_pc,    \* where a call of SUVIClient._get_url_for_timerange stands
  kwargs,     \* its keyword arguments
  suvi_timerange,  \* its time range
  now,        \* the time of the call
  waves,      \* the bands it scrapes
  satellitenumber,
  level,
  remaining,  \* the bands the loop has still to visit
  search_pattern,
  scraper,    \* the keywords of the Scraper built last
  urls,
  urlsmeta

routerVars == <<query, called, answer>>

scraperVars == <<spc, sclient, timerange, candidates, ubucket, url, rec>>

suviVars == <<suvi_pc, kwargs, suvi_timerange, now, waves, satellitenumber,
              level, remaining, search_pattern, scraper, urls, urlsmeta>>

vars == <<query, called, answer, spc, sclient, timerange, candidates,
          ubucket, url, rec, suvi_pc, kwargs, suvi_timerange, now, waves,
          satellitenumber, level, remaining, search_pattern, scraper, urls,
          urlsmeta>>

RouterInit ==
  /\ query = <<>>
  /\ called = "none"
  /\ answer = "none"

\* The caller adds one more attribute to the query.
AddAttr ==
  /\ called = "none"
  /\ Len(query) < MaxQueryLen
  /\ \E a \in QueryAttrs : query' = Append(query, a)
  /\ UNCHANGED <<called, answer>>
  /\ UNCHANGED scraperVars
  /\ UNCHANGED suviVars

CallEVE ==
  /\ called = "none"
  /\ called' = "EVE"
  /\ answer' = EVE_can_handle_query(query)
  /\ UNCHANGED query
  /\ UNCHANGED scraperVars
  /\ UNCHANGED suviVars

CallGBM ==
  /\ called = "none"
  /\ called' = "GBM"
  /\ answer' = GBM_can_handle_query(query)
  /\ UNCHANGED query
  /\ UNCHANGED scraperVars
  /\ UNCHANGED suviVars

CallXRS ==
  /\ called = "none"
  /\ called' = "XRS"
  /\ answer' = XRS_can_handle_query(query)
  /\ UNCHANGED query
  /\ UNCHANGED scraperVars
  /\ UNCHANGED suviVars

CallSUVI ==
  /\ called = "none"
  /\ called' = "SUVI"
  /\ answer' = SUVI_can_handle_query(query)
  /\ UNCHANGED query
  /\ UNCHANGED scraperVars
  /\ UNCHANGED suviVars

\* The caller adds the Time, the Instrument or the Level of a query for
\* EVEClient, each at most once and in any order.
AddTime ==
  /\ called = "none"
  /\ "Time" \notin QueryKinds(query)
  /\ query' = Append(query, TimeAttr)
  /\ UNCHANGED <<called, answer>>
  /\ UNCHANGED scraperVars
  /\ UNCHANGED suviVars

AddInstrumentEve ==
  /\ called = "none"
  /\ "Instrument" \notin QueryKinds(query)
  /\ \E s \in { <<"e","v","e">>, <<"E","V","E">> } :
       query' = Append(query, StrAttr("Instrument", s))
  /\ UNCHANGED <<called, answer>>
  /\ UNCHANGED scraperVars
  /\ UNCHANGED suviVars

AddLevel ==
  /\ called = "none"
  /\ "Level" \notin QueryKinds(query)
  /\ \E a \in LevelAttrs : query' = Append(query, a)
  /\ UNCHANGED <<called, answer>>
  /\ UNCHANGED scraperVars
  /\ UNCHANGED suviVars

(***************************************************************************)
(* A listing by EVEClient, GBMClient or XRSClient: the time range is       *)
(* enumerated with the resolution of the client's baseurl, the archive     *)
(* answers with a URL of one bucket, and the URL is matched against the    *)
(* client's extractor.                                                     *)
(***************************************************************************)
StartDates == { <<2012, 2, 27>>, <<2012, 7, 7>>, <<2012, 12, 28>>, <<2013, 2, 25>> }

Hours == {0, 12}

NoDate == <<1, 1, 1>>

ScraperInit ==
  /\ spc = "idle"
  /\ sclient = "none"
  /\ timerange = TimeRange(NoDate, 0, NoDate, 0)
  /\ candidates = <<>>
  /\ ubucket = NoDate
  /\ url = <<>>
  /\ rec = [ok |-> FALSE, fields |-> <<>>]

\* _get_url_for_timerange(timerange) is called on a client
Request ==
  /\ spc = "idle"
  /\ \E c \in ScraperClients, d1 \in StartDates, n \in 0..MaxSpanDays,
        h1 \in Hours, h2 \in Hours :
       /\ n = 0 => h1 <= h2
       /\ sclient' = c
       /\ timerange' = TimeRange(d1, h1, AddDays(d1, n), h2)
  /\ spc' = "ranged"
  /\ UNCHANGED <<candidates, ubucket, url, rec>>
  /\ UNCHANGED routerVars
  /\ UNCHANGED suviVars

Enumerate ==
  /\ spc = "ranged"
  /\ candidates' = enumerate(timerange, compilePattern(baseurl(sclient)))
  /\ spc' = "enumerated"
  /\ UNCHANGED <<sclient, timerange, ubucket, url, rec>>
  /\ UNCHANGED routerVars
  /\ UNCHANGED suviVars

\* the archive holds a file of one of the buckets
Discover ==
  /\ spc = "enumerated"
  /\ \E i \in 1..Len(candidates) :
       /\ ubucket' = candidates[i]
       /\ url' \in Renderings(baseurl(sclient), candidates[i])
  /\ spc' = "found"
  /\ UNCHANGED <<sclient, timerange, candidates, rec>>
  /\ UNCHANGED routerVars
  /\ UNCHANGED suviVars

Extract ==
  /\ spc = "found"
  /\ rec' = matchAndExtract(url, extractor(sclient), baseurl(sclient))
  /\ spc' = "extracted"
  /\ UNCHANGED <<sclient, timerange, candidates, ubucket, url>>
  /\ UNCHANGED routerVars
  /\ UNCHANGED suviVars

(***************************************************************************)
(* A call of SUVIClient._get_url_for_timerange(timerange, **kwargs): the   *)
(* arguments are validated, then the loop visits the bands one by one,     *)
(* each Scraper answering with the files the archive holds for its band.   *)
(***************************************************************************)
SuviStartDates == { <<2018, 5, 31>>, <<2018, 6, 1>>, <<2019, 1, 1>> }

NowInstants == { Instant(<<2018, 12, 31>>, 12), Instant(<<2019, 1, 3>>, 0) }

WavelengthArgs ==
  { NoArg, QuantityArg(94, 1), QuantityArg(343, 2), QuantityArg(100, 1),
    RangeArg(94, 131), RangeArg(100, 120), RangeArg(195, 304) }

SatelliteNumberArgs == { NoArg, IntArg(15), IntArg(16), IntArg(17) }

LevelArgs == { NoArg, StrArg(<<"1","b">>), StrArg(<<"3">>), IntArg(2) }

NoScraper ==
  [level |-> <<>>, wave |-> 0, goes_number |-> 0,
   has_wave_minus1 |-> FALSE, wave_minus1 |-> 0]

SuviInit ==
  /\ suvi_pc = "idle"
  /\ kwargs = [wavelength |-> NoArg, satellitenumber |-> NoArg, level |-> NoArg]
  /\ suvi_timerange = TimeRange(NoDate, 0, NoDate, 0)
  /\ now = Instant(NoDate, 0)
  /\ waves = <<>>
  /\ satellitenumber = 0
  /\ level = <<>>
  /\ remaining = <<>>
  /\ search_pattern = Unbound
  /\ scraper = NoScraper
  /\ urls = <<>>
  /\ urlsmeta = <<>>

\* lines 154-208: the call up to the loop; ValueError ends it
SUVI_Call ==
  /\ suvi_pc = "idle"
  /\ \E w \in WavelengthArgs, sn \in SatelliteNumberArgs, l \in LevelArgs,
        d1 \in SuviStartDates, n \in 0..MaxSuviSpan, t \in NowInstants :
       LET kw == [wavelength |-> w, satellitenumber |-> sn, level |-> l]
           tr == TimeRange(d1, 0, AddDays(d1, n), 12)
           p  == SUVI_prepare(kw, tr, t)
       IN /\ kwargs' = kw
          /\ suvi_timerange' = tr
          /\ now' = t
          /\ waves' = p.waves
          /\ satellitenumber' = p.satellitenumber
          /\ level' = p.level
          /\ remaining' = p.waves
          /\ suvi_pc' = IF p.ok THEN "loop" ELSE "ValueError"
  /\ UNCHANGED <<search_pattern, scraper, urls, urlsmeta>>
  /\ UNCHANGED routerVars
  /\ UNCHANGED scraperVars

\* the times of the files the archive may hold for one band: none, one
\* for each day of the range, or one for its first day only
FoundTimes(tr) ==
  LET days == EnumerateFrom(tr.start.date, tr.end.date, "day")
  IN { <<>>, days, <<days[1]>> }

\* lines 209-233: one pass of the loop
SUVI_Iterate ==
  /\ suvi_pc = "loop"
  /\ remaining # <<>>
  /\ LET this_wave == Head(remaining)
         sp == SUVI_search_pattern(level, this_wave, search_pattern)
     IN IF ~ sp.bound
          THEN /\ suvi_pc' = "UnboundLocalError"
               /\ UNCHANGED <<remaining, search_pattern, scraper, urls, urlsmeta>>
          ELSE LET sc == SUVI_scraper(sp, level, this_wave, satellitenumber)
               IN /\ search_pattern' = sp
                  /\ scraper' = sc
                  /\ remaining' = Tail(remaining)
                  /\ \E times \in FoundTimes(suvi_timerange),
                        has_meta \in BOOLEAN :
                       LET found == filelist(sp, sc, times)
                       IN IF has_meta
                            THEN /\ urls' = urls \o found
                                 /\ urlsmeta' = urlsmeta \o found
                            ELSE UNCHANGED <<urls, urlsmeta>>
                  /\ UNCHANGED suvi_pc
  /\ UNCHANGED <<kwargs, suvi_timerange, now, waves, satellitenumber, level>>
  /\ UNCHANGED routerVars
  /\ UNCHANGED scraperVars

\* line 234: return urls, urlsmeta
SUVI_Return ==
  /\ suvi_pc = "loop"
  /\ remaining = <<>>
  /\ suvi_pc' = "returned"
  /\ UNCHANGED <<kwargs, suvi_timerange, now, waves, satellitenumber, level,
                 remaining, search_pattern, scraper, urls, urlsmeta>>
  /\ UNCHANGED routerVars
  /\ UNCHANGED scraperVars

Init == RouterInit /\ ScraperInit /\ SuviInit

Next == AddAttr \/ CallEVE \/ CallGBM \/ CallXRS \/ CallSUVI

\* Routing: any query of at most MaxQueryLen attributes, any client.
Spec == Init /\ [][Next]_vars

NextLevel == AddTime \/ AddInstrumentEve \/ AddLevel \/ CallEVE

\* EVEClient on a Time, an Instrument and any Level payload.
SpecLevel == Init /\ [][NextLevel]_vars

NextScraper == Request \/ Enumerate \/ Discover \/ Extract

\* Listings of EVEClient, GBMClient and XRSClient.
SpecScraper == Init /\ [][NextScraper]_vars

NextSUVI == SUVI_Call \/ SUVI_Iterate \/ SUVI_Return

\* One call of SUVIClient._get_url_for_timerange.
SpecSUVI == Init /\ [][NextSUVI]_vars

(***************************************************************************)
(* Helpers of the properties below.  They state what the specification     *)
(* expects and are written without the operators that model the code.      *)
(***************************************************************************)
UpperMap ==
  [c \in { LowerChars[i] : i \in 1..Len(LowerChars) } |->
     UpperChars[CHOOSE i \in 1..Len(LowerChars) : LowerChars[i] = c]]

UpperChar(c) == IF c \in DOMAIN UpperMap THEN UpperMap[c] ELSE c

\* Every way of writing the name s in upper and lower case letters.
RECURSIVE Casings(_)
Casings(s) ==
  IF s = <<>> THEN { <<>> }
  ELSE { <<c>> \o r : c \in {LowerChar(s[1]), UpperChar(s[1])},
                      r \in Casings(Tail(s)) }

\* The casings of the alias 0cs and of the instrument names in use.
AliasCasings == Casings(<<"0","c","s">>)

EveCasings == Casings(<<"e","v","e">>)

NameCasings == [s \in InstrumentNames |-> Casings(s)]

\* s is, between optional blanks, an optional sign followed by digits of
\* ds, with single underscores allowed between two digits.
LiteralOver(s, ds) ==
  \E a \in 1..Len(s) : \E b \in a..Len(s) :
    /\ \A i \in 1..(a - 1) : s[i] = " "
    /\ \A i \in (b + 1)..Len(s) : s[i] = " "
    /\ LET f == IF s[a] \in {"+", "-"} THEN a + 1 ELSE a
       IN /\ f <= b
          /\ s[f] \in ds /\ s[b] \in ds
          /\ \A i \in f..b : s[i] \in ds \cup {"_"}
          /\ \A i \in f..(b - 1) : ~ (s[i] = "_" /\ s[i + 1] = "_")

\* The Level payload v is the alias "0cs", a string that reads as the
\* integer 0, or a number equal to 0.
NormalisesToZero(v) ==
  IF v.t = "str"
    THEN \/ v.s \in AliasCasings
         \/ LiteralOver(v.s, {"0"})
    ELSE v.n = 0

\* The Level payload v is a string that is neither the alias nor an integer.
NotCoercible(v) ==
  /\ v.t = "str"
  /\ v.s \notin AliasCasings
  /\ ~ LiteralOver(v.s, DigitSet)

HasKind(q, k) == \E i \in 1..Len(q) : q[i].kind = k

TheAttr(q, k) == q[CHOOSE i \in 1..Len(q) : q[i].kind = k]

\* q with every attribute of kind k replaced by a
ReplaceKind(q, k, a) == [i \in 1..Len(q) |-> IF q[i].kind = k THEN a ELSE q[i]]

\* q with the payload of its i-th attribute replaced by the string s
WithName(q, i, s) == [q EXCEPT ![i] = StrAttr(q[i].kind, s)]

\* A Time, an Instrument named eve and a Level, in any order.
IsEveLevelQuery(q) ==
  /\ Len(q) = 3
  /\ QueryKinds(q) = {"Time", "Instrument", "Level"}
  /\ TheAttr(q, "Instrument").s \in EveCasings

(***************************************************************************)
(* C1.  On a query made of a Time, an Instrument named eve and a Level,    *)
(* EVEClient._can_handle_query returns True exactly when the Level payload *)
(* normalises to the integer 0: Level("0cs") in any letter case is         *)
(* answered as Level(0) is, with True; Level("wibble") and Level(0.5) are  *)
(* answered False.                                                         *)
(***************************************************************************)
C1_LevelZeroAlias ==
  (called = "EVE" /\ IsEveLevelQuery(query)) =>
    LET lv == TheAttr(query, "Level")
    IN /\ answer = Py(NormalisesToZero(lv))
       /\ (lv.t = "str" /\ lv.s \in AliasCasings) =>
            /\ answer = "True"
            /\ answer = EVE_can_handle_query(
                          ReplaceKind(query, "Level", IntAttr("Level", 0)))
       /\ lv = IntAttr("Level", 0) => answer = "True"
       /\ lv = StrAttr("Level", <<"w","i","b","b","l","e">>) => answer = "False"
       /\ lv = FloatAttr("Level", 1, 2) => answer = "False"

C1_Witness ==
  /\ called = "EVE"
  /\ query = << TimeAttr, StrAttr("Instrument", <<"e","v","e">>),
                StrAttr("Level", <<"0","C","S">>) >>
  /\ answer = "True"

(***************************************************************************)
(* C2.  Every client answers False to a query that lacks a required kind:  *)
(* no Time, or no Instrument, or (EVEClient) no Level.                     *)
(***************************************************************************)
C2_RequiredKindRejected ==
  (called \in Clients /\
     (\/ ~ HasKind(query, "Time")
      \/ ~ HasKind(query, "Instrument")
      \/ (called = "EVE" /\ ~ HasKind(query, "Level")))) =>
    answer = "False"

(***************************************************************************)
(* C3.  A client answers False to every query holding an attribute whose   *)
(* kind it does not declare; so one more attribute of such a kind, put     *)
(* anywhere in a query, never gives True.                                  *)
(***************************************************************************)
C3_ClaimedKinds(c) ==
  CASE c = "EVE"  -> {"Time", "Instrument", "Level"}
    [] c = "GBM"  -> {"Time", "Instrument", "Detector", "Resolution"}
    [] c = "XRS"  -> {"Time", "Instrument", "SatelliteNumber"}
    [] c = "SUVI" -> {"Time", "Instrument", "Wavelength", "Level", "SatelliteNumber"}

C3_UndeclaredKindRejected ==
  called \in Clients =>
    /\ ~ (QueryKinds(query) \subseteq C3_ClaimedKinds(called)) => answer = "False"
    /\ \A a \in { b \in QueryAttrs : b.kind \notin C3_ClaimedKinds(called) } :
         \A i \in 0..Len(query) :
           can_handle_query(called,
             SubSeq(query, 1, i) \o <<a>> \o SubSeq(query, i + 1, Len(query)))
               = "False"

C3_Witness ==
  /\ called = "SUVI"
  /\ query = << TimeAttr, StrAttr("Instrument", <<"S","u","v","i">>),
                RangeAttr("Wavelength", 171, 171) >>
  /\ answer = "True"
  /\ SUVI_can_handle_query(Append(query, StrAttr("Detector", <<"n","5">>)))
       = "False"

(***************************************************************************)
(* C4.  A client answers False when a present attribute has a value the    *)
(* client does not support: for SUVIClient a Wavelength holding no         *)
(* supported band, a SatelliteNumber below 16, a Level other than 2 and    *)
(* 1b; for GBMClient a Detector outside n0..n11, a Resolution other than   *)
(* cspec and ctime.                                                        *)
(***************************************************************************)
C4_SupportedBands == {94, 131, 171, 195, 284, 304}

C4_Detectors ==
  { <<"n">> \o NatDigits(i) : i \in 0..11 }

C4_ValueSupported(c, a) ==
  CASE c = "SUVI" /\ a.kind = "Wavelength" ->
         \E b \in C4_SupportedBands : a.n <= b /\ b <= a.d
    [] c = "SUVI" /\ a.kind = "SatelliteNumber" -> a.n >= 16
    [] c = "SUVI" /\ a.kind = "Level" ->
         \/ a.t = "str" /\ a.s \in { <<"2">>, <<"1","b">> }
         \/ a.t = "int" /\ a.n = 2
    [] c = "GBM" /\ a.kind = "Detector" -> str_lower(a.s) \in C4_Detectors
    [] c = "GBM" /\ a.kind = "Resolution" ->
         str_lower(a.s) \in { <<"c","s","p","e","c">>, <<"c","t","i","m","e">> }
    [] OTHER -> TRUE

C4_UnsupportedValueRejected ==
  (called \in {"SUVI", "GBM"} /\
     \E i \in 1..Len(query) : ~ C4_ValueSupported(called, query[i])) =>
    answer = "False"

(***************************************************************************)
(* C5.  EVEClient._can_handle_query never raises because of the Level      *)
(* payload: it returns True or False, and False for a string that is       *)
(* neither the alias nor an integer.                                       *)
(***************************************************************************)
C5_LevelNeverRaises ==
  called = "EVE" =>
    /\ answer \in {"True", "False"}
    /\ (\E i \in 1..Len(query) :
          query[i].kind = "Level" /\ NotCoercible(query[i])) => answer = "False"

C5_Witness ==
  /\ called = "EVE"
  /\ query = << TimeAttr, StrAttr("Instrument", <<"e","v","e">>),
                StrAttr("Level", <<"w","i","b","b","l","e">>) >>
  /\ answer = "False"

(***************************************************************************)
(* C6.  The Instrument test of every client is name equality without       *)
(* regard to letter case: writing the Instrument of a query in another     *)
(* case never changes the answer; a client that answers True was given an  *)
(* Instrument named eve (EVEClient), gbm (GBMClient), xrs or goes          *)
(* (XRSClient), suvi (SUVIClient); a query whose Instrument has another    *)
(* name is answered False; each of these names is accepted.                *)
(***************************************************************************)
C6_ClaimedNames(c) ==
  CASE c = "EVE"  -> { <<"e","v","e">> }
    [] c = "GBM"  -> { <<"g","b","m">> }
    [] c = "XRS"  -> { <<"x","r","s">>, <<"g","o","e","s">> }
    [] c = "SUVI" -> { <<"s","u","v","i">> }

C6_Casings ==
  [c \in Clients |-> UNION { Casings(m) : m \in C6_ClaimedNames(c) }]

C6_Named(c, s) == s \in C6_Casings[c]

C6_InstrumentCaseInsensitive ==
  called \in Clients =>
    /\ \A i \in 1..Len(query) :
         query[i].kind = "Instrument" =>
           \A s \in NameCasings[query[i].s] :
             can_handle_query(called, WithName(query, i, s)) = answer
    /\ answer = "True" =>
         \E i \in 1..Len(query) :
           query[i].kind = "Instrument" /\ C6_Named(called, query[i].s)
    /\ (\A i \in 1..Len(query) :
          query[i].kind = "Instrument" => ~ C6_Named(called, query[i].s))
         => answer = "False"
    /\ (/\ QueryKinds(query) = {"Time", "Instrument"} \cup
                                 (IF called = "EVE" THEN {"Level"} ELSE {})
        /\ Len(query) = Cardinality(QueryKinds(query))
        /\ C6_Named(called, TheAttr(query, "Instrument").s)
        /\ called = "EVE" => NormalisesToZero(TheAttr(query, "Level")))
         => answer = "True"

C6_Witness ==
  /\ called = "XRS"
  /\ query = << TimeAttr, StrAttr("Instrument", <<"G","o","e","s">>) >>
  /\ answer = "True"
  /\ XRS_can_handle_query(<< TimeAttr, StrAttr("Instrument", <<"g","o","e","s">>) >>)
       = "True"

(***************************************************************************)
(* C7.  For a template of daily resolution, as the baseurl of EVEClient    *)
(* is, the candidates of a time range are the calendar days from the day   *)
(* of start to the day of end, both included, one each, in increasing      *)
(* order: one candidate when start = end, eight for 2012-07-07 to          *)
(* 2012-07-14.                                                             *)
(***************************************************************************)
C7_MonthLengths == <<31, 28, 31, 30, 31, 30, 31, 31, 30, 31, 30, 31>>

C7_ValidDate(dt) ==
  /\ dt[2] \in 1..12
  /\ dt[3] >= 1
  /\ \/ dt[3] <= C7_MonthLengths[dt[2]]
     \/ dt[2] = 2 /\ dt[3] = 29 /\ dt[1] % 4 = 0
          /\ (dt[1] % 100 # 0 \/ dt[1] % 400 = 0)

\* the number of the day dt, counted from a fixed day
C7_Ordinal(dt) ==
  LET y == IF dt[2] <= 2 THEN dt[1] - 1 ELSE dt[1]
      m == IF dt[2] <= 2 THEN dt[2] + 9 ELSE dt[2] - 3
  IN 365 * y + (y \div 4) - (y \div 100) + (y \div 400)
       + ((153 * m + 2) \div 5) + dt[3] - 1

C7_DailyEnumeration ==
  spc \in {"enumerated", "found", "extracted"} =>
    /\ compilePattern(baseurl(sclient)) = "day"
    /\ Len(candidates) >= 1
    /\ candidates[1] = timerange.start.date
    /\ candidates[Len(candidates)] = timerange.end.date
    /\ \A i \in 1..Len(candidates) : C7_ValidDate(candidates[i])
    /\ \A i \in 1..(Len(candidates) - 1) :
         C7_Ordinal(candidates[i + 1]) = C7_Ordinal(candidates[i]) + 1
    /\ Len(candidates) =
         C7_Ordinal(timerange.end.date) - C7_Ordinal(timerange.start.date) + 1
    /\ timerange.start = timerange.end => Len(candidates) = 1
    /\ (timerange.start.date = <<2012, 7, 7>> /\ timerange.end.date = <<2012, 7, 14>>)
         => Len(candidates) = 8

C7_Witness ==
  /\ spc = "enumerated"
  /\ sclient = "EVE"
  /\ timerange = TimeRange(<<2012, 7, 7>>, 0, <<2012, 7, 14>>, 0)
  /\ Len(candidates) = 8
  /\ candidates[1] = <<2012, 7, 7>>
  /\ candidates[8] = <<2012, 7, 14>>

(***************************************************************************)
(* C9.  As claimed: for EVEClient, GBMClient and XRSClient the groups of   *)
(* the baseurl (date directives, regex fragments) and the fields of the    *)
(* extractor agree positionally: as many, in the same order, with the      *)
(* same literal text between them.                                         *)
(***************************************************************************)
\* a template with each group or field replaced by a mark and adjacent
\* literal text joined
RECURSIVE C9_Shape(_)
C9_Shape(t) ==
  IF t = <<>> THEN <<>>
  ELSE IF Head(t).k # "lit"
         THEN << [mark |-> TRUE, v |-> ""] >> \o C9_Shape(Tail(t))
  ELSE LET rest == C9_Shape(Tail(t))
       IN IF rest # <<>> /\ ~ Head(rest).mark
            THEN << [mark |-> FALSE, v |-> Head(t).v \o Head(rest).v] >> \o Tail(rest)
            ELSE << [mark |-> FALSE, v |-> Head(t).v] >> \o rest

\* C9 as claimed: whichever client has listed, its baseurl and its
\* extractor have the same shape.
C9_PositionalAgreement ==
  sclient \in ScraperClients =>
    C9_Shape(baseurl(sclient)) = C9_Shape(extractor(sclient))

(***************************************************************************)
(* C9, amended.  The groups of baseurl and the fields of extractor agree   *)
(* positionally for XRSClient only (five and five).  For EVEClient (four   *)
(* groups, three fields) and GBMClient (eight groups, six fields) the      *)
(* extractor is coarser: in each of the three clients the extractor lies   *)
(* over the baseurl in exactly one way, its literal text on the same       *)
(* literal text and each field on a run of adjacent groups or on one       *)
(* piece of literal text (the Level field of EVEClient on 0CS); so every   *)
(* URL of the baseurl gives one value for each field, and the named fields *)
(* get the texts the URL holds at their places.                            *)
(***************************************************************************)
C9_Count(t, kinds) == Cardinality({ i \in 1..Len(t) : t[i].k \in kinds })

C9_Field(name) == rec.fields[CHOOSE j \in 1..Len(rec.fields) : rec.fields[j].name = name]

C9_Layout ==
  /\ C9_Shape(XRS_baseurl) = C9_Shape(XRS_extractor)
  /\ C9_Shape(EVE_baseurl) # C9_Shape(EVE_extractor)
  /\ C9_Shape(GBM_baseurl) # C9_Shape(GBM_extractor)
  /\ C9_Count(EVE_baseurl, {"dir", "re"}) = 4 /\ C9_Count(EVE_extractor, {"fld"}) = 3
  /\ C9_Count(GBM_baseurl, {"dir", "re"}) = 8 /\ C9_Count(GBM_extractor, {"fld"}) = 6
  /\ C9_Count(XRS_baseurl, {"dir", "re"}) = 5 /\ C9_Count(XRS_extractor, {"fld"}) = 5
  /\ \A c \in ScraperClients :
       Cardinality(Alignments(extractor(c), baseurl(c), 0)) = 1

C9_ExtractorCoarsensBaseurl ==
  /\ C9_Layout
  /\ spc = "extracted" =>
       /\ rec.ok
       /\ Len(rec.fields) = C9_Count(extractor(sclient), {"fld"})
       /\ sclient = "EVE" =>
            /\ C9_Field("Level").lit = "0CS"
            /\ rec.fields[1].txt = strftime("%Y", ubucket)
            /\ rec.fields[2].val = 10000 * ubucket[1] + 100 * ubucket[2] + ubucket[3]
       /\ sclient = "GBM" =>
            /\ C9_Field("Resolution").txt = url[8].txt
            /\ C9_Field("Detector").txt = url[10].txt
            /\ <<rec.fields[1].val, rec.fields[2].val, rec.fields[3].val>> = ubucket
            /\ rec.fields[6].txt = url[12].txt \o url[13].txt \o url[14].txt
       /\ sclient = "XRS" =>
            /\ C9_Field("SatelliteNumber").txt = url[4].txt
            /\ <<C9_Field("year").val, C9_Field("month").val, C9_Field("day").val>>
                 = ubucket

C9_Witness ==
  /\ spc = "extracted"
  /\ sclient = "GBM"
  /\ rec.ok
  /\ Len(rec.fields) = 6
  /\ C9_Field("Resolution").txt = <<"c","t","i","m","e">>
  /\ C9_Field("Detector").txt = <<"n","1","1">>


(***************************************************************************)
(* C8.  The lists SUVIClient._get_url_for_timerange returns for a query    *)
(* covering several bands are in ascending order of time across all the    *)
(* bands.                                                                  *)
(***************************************************************************)
C8_Ascending(files) ==
  \A i \in 1..Len(files), j \in 1..Len(files) :
    i < j => DateLE(files[i].time, files[j].time)

\* C8: whenever the call has returned, urls and urlsmeta are each sorted
\* ascending by time over the whole result.
C8_SortedAcrossBands ==
  suvi_pc = "returned" => C8_Ascending(urls) /\ C8_Ascending(urlsmeta)

(***************************************************************************)
(* C10.  A supplied satellitenumber >= 16, with a supported level and      *)
(* wavelength, is used and the call does not raise ValueError, whatever    *)
(* the start of the time range.                                            *)
(***************************************************************************)
C10_Bands == {94, 131, 171, 195, 284, 304}

C10_WavelengthSupported ==
  \/ kwargs.wavelength.t = "absent"
  \/ /\ kwargs.wavelength.t = "quantity"
     /\ \E b \in C10_Bands :
          /\ b * kwargs.wavelength.d <= kwargs.wavelength.n
          /\ kwargs.wavelength.n < (b + 1) * kwargs.wavelength.d
  \/ /\ kwargs.wavelength.t = "range"
     /\ \E b \in C10_Bands : kwargs.wavelength.n <= b /\ b <= kwargs.wavelength.d

C10_LevelSupported ==
  \/ kwargs.level.t = "absent"
  \/ kwargs.level.t = "str" /\ kwargs.level.s \in { <<"2">>, <<"1","b">> }
  \/ kwargs.level.t = "int" /\ kwargs.level.n = 2

\* C10: once the call is past its validation with a supplied
\* satellitenumber >= 16 and a supported level and wavelength, it has not
\* raised ValueError and it uses the supplied number.
C10_SuppliedNumberUsed ==
  ( /\ suvi_pc # "idle"
    /\ kwargs.satellitenumber.t = "int"
    /\ kwargs.satellitenumber.n >= 16
    /\ C10_LevelSupported
    /\ C10_WavelengthSupported )
  => /\ suvi_pc # "ValueError"
     /\ satellitenumber = kwargs.satellitenumber.n

(***************************************************************************)
(* C11.  In the search pattern built for one band, the number in the       *)
(* directory is the band, and the number in the file name is band - 1      *)
(* exactly when level is '1b' and the band is 94 or 304 (Fe093, He303),    *)
(* else the band; wave_minus1 is passed to the Scraper if and only if the  *)
(* file name uses the offset.                                              *)
(***************************************************************************)
\* the band the loop visited last
C11_Band == waves[Len(waves) - Len(remaining)]

C11_Offset(lev, band) == lev = <<"1","b">> /\ band \in {94, 304}

\* C11: after every pass of the loop the directory number is the band, the
\* file-name number is the band less one exactly for level '1b' with band
\* 94 or 304, wave_minus1 was passed exactly in that case, and every file
\* listed so far has its two numbers in that relation.
C11_BandNumbers ==
  (suvi_pc \in {"loop", "returned"} /\ Len(remaining) < Len(waves)) =>
    /\ search_pattern.bound
    /\ scraper.wave = C11_Band
    /\ format_wave(search_pattern.dir_wave, scraper) = C11_Band
    /\ format_wave(search_pattern.file_wave, scraper) =
         (IF C11_Offset(level, C11_Band) THEN C11_Band - 1 ELSE C11_Band)
    /\ scraper.has_wave_minus1 <=> C11_Offset(level, C11_Band)
    /\ scraper.has_wave_minus1 <=> search_pattern.file_wave = "wave_minus1"
    /\ scraper.has_wave_minus1 => scraper.wave_minus1 = C11_Band - 1
    /\ (level = <<"1","b">> /\ C11_Band = 94) =>
         /\ search_pattern.file = "OR_SUVI-L{level}-Fe"
         /\ format_03(format_wave(search_pattern.file_wave, scraper))
              = <<"0","9","3">>
    /\ (level = <<"1","b">> /\ C11_Band = 304) =>
         /\ search_pattern.file = "OR_SUVI-L{level}-He"
         /\ format_03(format_wave(search_pattern.file_wave, scraper))
              = <<"3","0","3">>
    /\ \A i \in 1..Len(urls) :
         /\ \E k \in 1..Len(waves) : urls[i].dir_wave = waves[k]
         /\ urls[i].file_wave =
              (IF C11_Offset(urls[i].level, urls[i].dir_wave)
                 THEN urls[i].dir_wave - 1 ELSE urls[i].dir_wave)

C11_Witness ==
  /\ suvi_pc = "loop"
  /\ level = <<"1","b">>
  /\ Len(remaining) < Len(waves)
  /\ C11_Band = 94
  /\ scraper.has_wave_minus1
  /\ scraper.wave_minus1 = 93
  /\ Len(urls) >= 1
  /\ urls[1].dir_wave = 94
  /\ urls[1].file_wave = 93

(***************************************************************************)
(* C12.  The bands scraped are the six supported bands in their order when *)
(* no wavelength is given, the given band when a single supported          *)
(* wavelength is given, and the supported bands within the bounds of a     *)
(* range, both included, in ascending order; a single wavelength that is   *)
(* not a supported band, or a range holding none, raises ValueError.       *)
(***************************************************************************)
C12_AllBands == <<94, 131, 171, 195, 284, 304>>

\* the single wavelength n / d angstrom is the band b
C12_IsBand(w, b) == w.n = b * w.d

C12_InRange(w, b) == w.n <= b /\ b <= w.d

C12_Unsupported(w) ==
  \/ w.t = "quantity" /\ \A k \in 1..Len(C12_AllBands) : ~ C12_IsBand(w, C12_AllBands[k])
  \/ w.t = "range" /\ \A k \in 1..Len(C12_AllBands) : ~ C12_InRange(w, C12_AllBands[k])

C12_Expected(w) ==
  IF w.t = "absent" THEN C12_AllBands
  ELSE IF w.t = "quantity"
    THEN SelectSeq(C12_AllBands, LAMBDA b : C12_IsBand(w, b))
  ELSE SelectSeq(C12_AllBands, LAMBDA b : C12_InRange(w, b))

\* C12: a call with an unsupported wavelength has raised ValueError, and a
\* call that reached its loop scrapes the bands the wavelength stands for.
C12_BandsScraped ==
  suvi_pc # "idle" =>
    /\ C12_Unsupported(kwargs.wavelength) => suvi_pc = "ValueError"
    /\ suvi_pc \in {"loop", "returned"} => waves = C12_Expected(kwargs.wavelength)

(***************************************************************************)
(* C13.  Routing is never ambiguous: for a query with at most one          *)
(* attribute of each kind, at most one of EVEClient, GBMClient, XRSClient  *)
(* and SUVIClient returns True from _can_handle_query.                     *)
(***************************************************************************)
C13_OnePerKind(q) ==
  \A i \in 1..Len(q), j \in 1..Len(q) : q[i].kind = q[j].kind => i = j

C13_Accepting(q) == { c \in Clients : can_handle_query(c, q) = "True" }

\* C13: whatever the query with one attribute of each kind at most, no
\* two clients answer True; when the client called has answered True,
\* every other client answers otherwise.
C13_RoutingUnambiguous ==
  C13_OnePerKind(query) =>
    /\ Cardinality(C13_Accepting(query)) <= 1
    /\ (called # "none" /\ answer = "True") =>
         \A c \in Clients \ {called} : can_handle_query(c, query) # "True"

C13_Witness ==
  /\ called = "SUVI"
  /\ answer = "True"
  /\ C13_OnePerKind(query)
  /\ QueryKinds(query) = {"Time", "Instrument", "SatelliteNumber"}
  /\ C13_Accepting(query) = {"SUVI"}
  /\ all_chklist(query, XRS_chkattr)

(***************************************************************************)
(* C14.  In every pass of the loop the band is a supported band and the    *)
(* level is '2' or '1b', so one branch assigns search_pattern in that      *)
(* pass before the Scraper is built: search_pattern is never unbound and   *)
(* never the value left by the band before.                                *)
(***************************************************************************)
C14_Bands == {94, 131, 171, 195, 284, 304}

\* the number of passes made
C14_Passes == Len(waves) - Len(remaining)

\* C14: the call never ends in UnboundLocalError; while it loops, the
\* level is '2' or '1b' and every band visited or still to visit is a
\* supported band for which a branch assigns search_pattern whatever it
\* held; after a pass search_pattern is what the branch of the band just
\* visited assigns, with the species of that band.
C14_PatternAssignedEachPass ==
  /\ suvi_pc # "UnboundLocalError"
  /\ suvi_pc \in {"loop", "returned"} =>
       /\ level \in { <<"2">>, <<"1","b">> }
       /\ \A k \in 1..Len(waves) :
            /\ waves[k] \in C14_Bands
            /\ SUVI_search_pattern(level, waves[k], Unbound).bound
       /\ C14_Passes >= 1 =>
            /\ search_pattern.bound
            /\ search_pattern =
                 SUVI_search_pattern(level, waves[C14_Passes], Unbound)
            /\ level = <<"2">> => search_pattern.file = "dr_suvi-l{level}-ci"
            /\ level = <<"1","b">> =>
                 search_pattern.file =
                   (IF waves[C14_Passes] = 304 THEN "OR_SUVI-L{level}-He"
                                               ELSE "OR_SUVI-L{level}-Fe")
            /\ search_pattern.file_wave = "wave_minus1" <=>
                 (level = <<"1","b">> /\ waves[C14_Passes] \in {94, 304})

C14_Witness ==
  /\ suvi_pc = "loop"
  /\ level = <<"1","b">>
  /\ waves = <<195, 284, 304>>
  /\ C14_Passes = 3
  /\ search_pattern.bound
  /\ search_pattern.file = "OR_SUVI-L{level}-He"
  /\ Len(urls) >= 2
  /\ urls[1].file = "OR_SUVI-L{level}-Fe"

=============================================================================
